---- MODULE Spec2Model ----
(***************************************************************************)
(* Model of server/api/property/property.controller.js: the six request    *)
(* handlers (index, show, create, upsert, patch, destroy) and their        *)
(* promise chains over the Property store.                                   *)
(*                                                                         *)
(* A request is one promise chain.  The synchronous part of a handler is   *)
(* one action (it ends by issuing a data-access call); the settling of a   *)
(* data-access call together with the .then/.catch callbacks that run on   *)
(* it is one action (the callbacks are synchronous up to the next call).   *)
(***************************************************************************)
EXTENDS Integers, Sequences, FiniteSets, TLC

\* ---------------------------------------------------------------- bounds
MaxId == 1          \* ids are 0..MaxId (0 is the falsy id a client can send)
MaxPatchLen == 2    \* longest patch list a client sends
MaxReq == 2         \* request slots (requests in flight at once in SpecConc)

Names == {"A", "X"}
Prices == {10}
BodyIds == 0..MaxId
PathIds == 0..MaxId
GenIds == 1..MaxId
Reqs == 1..MaxReq

\* ------------------------------------------------------------ JS values
\* A value travelling down a promise chain: null, one entity, or an array.
NullVal == [kind |-> "null", rows |-> {}]
EntityVal(row) == [kind |-> "entity", rows |-> {row}]
ArrayVal(rows) == [kind |-> "array", rows |-> rows]
TheRow(v) == CHOOSE x \in v.rows : TRUE

\* if(entity): null is falsy; objects and arrays (also empty ones) are truthy
Truthy(v) == v.kind # "null"
\* if(req.body.id): a missing key, and the id 0, are falsy
TruthyId(body) == body.kind = "object" /\ body.hasId /\ body.id # 0

\* Request bodies.  An object body carries the entity's fields and possibly
\* an id key; an array body (patch) is a list of operations and has no id key.
ObjectBody(hasId, id, name, price) ==
    [kind |-> "object", hasId |-> hasId, id |-> id, name |-> name,
     price |-> price, ops |-> <<>>]
ArrayBody(ops) ==
    [kind |-> "array", hasId |-> FALSE, id |-> 0, name |-> "", price |-> 0,
     ops |-> ops]
NoBody == [kind |-> "none", hasId |-> FALSE, id |-> 0, name |-> "",
           price |-> 0, ops |-> <<>>]

\* Reflect.deleteProperty(req.body, 'id')
deleteId(body) ==
    IF body.kind = "object" THEN [body EXCEPT !.hasId = FALSE, !.id = 0]
    ELSE body

\* if(req.body.id) { Reflect.deleteProperty(req.body, 'id'); }
stripId(body) == IF TruthyId(body) THEN deleteId(body) ELSE body

\* ------------------------------------------------------------ responses
\* One write on res: res.status(status) followed by .json(val), .end() or
\* .send(err).  A request's writes are the ones its chain makes, in order.
Write(status, kind, val) == [status |-> status, kind |-> kind, val |-> val]

\* respondWithResult with the statusCode argument dropped
respondWithResultIgnoreCode(writes, statusCode, entity) ==
    IF Truthy(entity)
    THEN Append(writes, Write(200, "json", entity))
    ELSE writes
\* statusCode 0 stands for an omitted argument (statusCode || 200)
respondWithResult(writes, statusCode, entity) ==
    LET sc == IF statusCode = 0 THEN 200 ELSE statusCode
    IN  IF Truthy(entity)
        THEN Append(writes, Write(sc, "json", entity))
        ELSE writes

\* the writes made, and the value handed to the next .then
handleEntityNotFound(writes, entity) ==
    IF ~Truthy(entity)
    THEN [writes |-> Append(writes, Write(404, "empty", NullVal)), val |-> NullVal]
    ELSE [writes |-> writes, val |-> entity]

\* handleError that swallows the error without responding
handleErrorSilent(writes, statusCode) == writes
handleError(writes, statusCode) ==
    LET sc == IF statusCode = 0 THEN 500 ELSE statusCode
    IN  Append(writes, Write(sc, "error", NullVal))

\* ------------------------------------------------------------ the store
VARIABLES
    store,   \* the Property table: a set of rows
    reqs,    \* per request slot: the request, its chain's position, its response
    gone,    \* history: ids whose destroy has responded 204 and that no
             \* create or upsert has brought back since
    tracking \* whether the run keeps the history in gone

vars == <<store, reqs, gone, tracking>>

\* A row of the table.  cid is a history field: the id the row was given when
\* it was inserted.  It is no attribute of the entity.
Row(cid, id, name, price) == [cid |-> cid, id |-> id, name |-> name, price |-> price]

UsedIds == {row.id : row \in store}
RowsWithId(id) == {row \in store : row.id = id}

\* Property.findAll()
findAll == ArrayVal(store)

\* Property.find({where: {id}})
find(id) ==
    IF RowsWithId(id) = {} THEN NullVal
    ELSE EntityVal(CHOOSE row \in RowsWithId(id) : TRUE)

\* Property.create(fields): the ids the new row can get.  A body's id is
\* used as given; without one the store generates an unused positive id.
createIds(fields) ==
    IF fields.hasId THEN {fields.id} \ UsedIds ELSE GenIds \ UsedIds

createRow(fields, id) == Row(id, id, fields.name, fields.price)

\* Property.upsert(fields, {where: {id}}): the row that results.  The row
\* with that id is replaced by the fields, or a row is inserted; an id among
\* the fields is written like any other field.
upsertRow(fields, id) ==
    LET newId == IF fields.hasId THEN fields.id ELSE id
        cid == IF RowsWithId(id) = {} THEN newId
               ELSE (CHOOSE row \in RowsWithId(id) : TRUE).cid
    IN  Row(cid, newId, fields.name, fields.price)

\* the primary key stays unique: a write that would duplicate an id rejects
upsertAllowed(fields, id) ==
    LET newId == IF fields.hasId THEN fields.id ELSE id
    IN  newId = id \/ newId \notin UsedIds

upsertStore(fields, id) == (store \ RowsWithId(id)) \cup {upsertRow(fields, id)}

\* entity.save(): the instance was loaded under loadedId; its row, when it
\* still exists, is overwritten by the instance's attributes.
saveAllowed(loadedId, row) == row.id = loadedId \/ row.id \notin UsedIds

saveStore(loadedId, row) ==
    IF RowsWithId(loadedId) = {} THEN store
    ELSE (store \ RowsWithId(loadedId)) \cup {row}

\* entity.destroy()
destroyStore(row) == store \ RowsWithId(row.id)

\* ----------------------------------------------------------- JSON patch
\* One operation of a patch list: num is the value for /id and /price, str
\* the value for /name.
PatchOp(op, path, num, str) == [op |-> op, path |-> path, num |-> num, str |-> str]

\* jsonpatch.apply(entity, patches, true), one operation: ok is FALSE when
\* the operation throws (unknown op, unresolvable path, failed test).
applyOp(row, o) ==
    IF o.op \notin {"replace", "test"} THEN [ok |-> FALSE, row |-> row]
    ELSE IF o.path \notin {"id", "name", "price"} THEN [ok |-> FALSE, row |-> row]
    ELSE IF o.op = "replace"
         THEN [ok |-> TRUE,
               row |-> CASE o.path = "id" -> [row EXCEPT !.id = o.num]
                         [] o.path = "name" -> [row EXCEPT !.name = o.str]
                         [] o.path = "price" -> [row EXCEPT !.price = o.num]]
         ELSE [ok |-> CASE o.path = "id" -> row.id = o.num
                        [] o.path = "name" -> row.name = o.str
                        [] o.path = "price" -> row.price = o.num,
               row |-> row]

\* The operations are applied in order to the entity in place; the first one
\* that throws ends the application, the earlier ones having been applied.
RECURSIVE jsonpatchApply(_, _)
jsonpatchApply(row, ops) ==
    IF ops = <<>> THEN [ok |-> TRUE, row |-> row]
    ELSE LET r1 == applyOp(row, Head(ops))
         IN  IF r1.ok THEN jsonpatchApply(r1.row, Tail(ops)) ELSE r1

\* patchUpdates(patches)(entity), up to its return: threw is TRUE when the
\* callback rejects or throws, save when entity.save() has been called.
\* On null, jsonpatch.apply or null.save() throws a TypeError.
\* patchUpdates that validates the list on a copy and saves the entity as read
patchUpdatesOnCopy(ops, entity) ==
    IF ~Truthy(entity) THEN [threw |-> TRUE, save |-> FALSE, val |-> entity]
    ELSE LET r1 == jsonpatchApply(TheRow(entity), ops)
         IN  IF r1.ok
             THEN [threw |-> FALSE, save |-> TRUE, val |-> entity]
             ELSE [threw |-> TRUE, save |-> FALSE, val |-> entity]
\* patchUpdates that ignores a failed application and saves all the same
patchUpdatesNoCatch(ops, entity) ==
    IF ~Truthy(entity) THEN [threw |-> TRUE, save |-> FALSE, val |-> entity]
    ELSE LET r1 == jsonpatchApply(TheRow(entity), ops)
         IN  [threw |-> FALSE, save |-> TRUE, val |-> EntityVal(r1.row)]
patchUpdates(ops, entity) ==
    IF ~Truthy(entity) THEN [threw |-> TRUE, save |-> FALSE, val |-> entity]
    ELSE LET r1 == jsonpatchApply(TheRow(entity), ops)
         IN  IF r1.ok
             THEN [threw |-> FALSE, save |-> TRUE, val |-> EntityVal(r1.row)]
             ELSE [threw |-> TRUE, save |-> FALSE, val |-> EntityVal(r1.row)]

\* removeEntity(res)(entity), up to its return: whether entity.destroy() is called
removeEntity(entity) == Truthy(entity)

\* ------------------------------------------------------------- requests
Idle == [op |-> "none", pc |-> "idle", id |-> 0, body |-> NoBody,
         found |-> NullVal, entity |-> NullVal, writes |-> <<>>,
         calls |-> <<>>, rejected |-> FALSE]

Pending(r) == reqs[r].pc \notin {"idle", "done"}
Free(r) == ~Pending(r)

\* a request arrives on a slot with no request in flight
Start(r, op, id, body, call) ==
    /\ Free(r)
    /\ reqs' = [reqs EXCEPT ![r] =
        [Idle EXCEPT !.op = op, !.pc = call, !.id = id, !.body = body,
                     !.calls = <<call>>]]

\* a request that has run to its end: the request object is dropped
Done(q, writes) == [q EXCEPT !.pc = "done", !.body = NoBody, !.writes = writes]

Finish(r, writes) ==
    reqs' = [reqs EXCEPT ![r] = Done(reqs[r], writes)]

Init ==
    /\ store = {}
    /\ reqs = [r \in Reqs |-> Idle]
    /\ gone = {}
    /\ tracking = FALSE

\* the same start, with the history of destroyed ids kept
InitHist ==
    /\ store = {}
    /\ reqs = [r \in Reqs |-> Idle]
    /\ gone = {}
    /\ tracking = TRUE

\* --------------------------------------------------------------- inputs
Bodies ==
    {ObjectBody(FALSE, 0, n, p) : n \in Names, p \in Prices}
    \cup {ObjectBody(TRUE, i, n, p) : i \in BodyIds, n \in Names, p \in Prices}

PatchOps ==
    {PatchOp("replace", "name", 0, "X"),
     PatchOp("replace", "id", 1, ""),
     PatchOp("test", "name", 0, "A"),
     PatchOp("replace", "bogus", 0, "A")}

SeqsUpTo(S, n) == UNION {[1..k -> S] : k \in 0..n}
PatchLists == {ArrayBody(ops) : ops \in SeqsUpTo(PatchOps, MaxPatchLen)}

\* the inputs of the runs with requests in flight at once
ConcIds == {1}
ConcBodies == {ObjectBody(TRUE, 1, "A", 10)}
ConcPatchLists ==
    {ArrayBody(<<PatchOp("replace", "name", 0, "X")>>),
     ArrayBody(<<PatchOp("replace", "price", 20, "")>>)}

\* ------------------------------------------- handlers, synchronous part
\* index: Property.findAll()
index(r) ==
    /\ Start(r, "index", 0, NoBody, "findAll")
    /\ UNCHANGED <<store, gone, tracking>>

\* show: Property.find({where: {id: req.params.id}})
show(r, id) ==
    /\ Start(r, "show", id, NoBody, "find")
    /\ UNCHANGED <<store, gone, tracking>>

\* create: Property.create(req.body)
create(r, body) ==
    /\ Start(r, "create", 0, body, "create")
    /\ UNCHANGED <<store, gone, tracking>>

\* upsert: strip a truthy id from the body, Property.upsert(req.body, {where})
upsert(r, id, body) ==
    /\ Start(r, "upsert", id, stripId(body), "upsert")
    /\ UNCHANGED <<store, gone, tracking>>

\* patch: strip a truthy id from the body (the patch list), Property.find
patch(r, id, body) ==
    /\ Start(r, "patch", id, stripId(body), "find")
    /\ UNCHANGED <<store, gone, tracking>>

\* destroy: Property.find({where: {id: req.params.id}})
destroy(r, id) ==
    /\ Start(r, "destroy", id, NoBody, "find")
    /\ UNCHANGED <<store, gone, tracking>>

\* ------------------------------- a data-access call settles: the chain
\* index: findAll resolved; .then(respondWithResult(res))
indexResolved(r) ==
    /\ reqs[r].pc = "findAll"
    /\ Finish(r, respondWithResult(reqs[r].writes, 0, findAll))
    /\ UNCHANGED <<store, gone, tracking>>

\* show: find resolved; .then(handleEntityNotFound(res)).then(respondWithResult(res))
showResolved(r) ==
    /\ reqs[r].pc = "find" /\ reqs[r].op = "show"
    /\ LET e == find(reqs[r].id)
           h == handleEntityNotFound(reqs[r].writes, e)
       IN  reqs' = [reqs EXCEPT ![r] =
                 Done([@ EXCEPT !.found = e], respondWithResult(h.writes, 0, h.val))]
    /\ UNCHANGED <<store, gone, tracking>>

\* create: create resolved; .then(respondWithResult(res, 201))
createResolved(r) ==
    /\ reqs[r].pc = "create"
    /\ \E id \in createIds(reqs[r].body) :
         LET row == createRow(reqs[r].body, id)
         IN  /\ store' = store \cup {row}
             /\ gone' = gone \ {id}
             /\ UNCHANGED tracking
             /\ reqs' = [reqs EXCEPT ![r] =
                   Done([@ EXCEPT !.entity = EntityVal(row)],
                        respondWithResult(reqs[r].writes, 201, EntityVal(row)))]

\* upsert: upsert resolved; .then(respondWithResult(res))
upsertResolved(r) ==
    /\ reqs[r].pc = "upsert"
    /\ upsertAllowed(reqs[r].body, reqs[r].id)
    /\ LET row == upsertRow(reqs[r].body, reqs[r].id)
       IN  /\ store' = upsertStore(reqs[r].body, reqs[r].id)
           /\ gone' = gone \ {row.id}
           /\ UNCHANGED tracking
           /\ reqs' = [reqs EXCEPT ![r] =
                 Done([@ EXCEPT !.found = find(reqs[r].id), !.entity = EntityVal(row)],
                      respondWithResult(reqs[r].writes, 0, EntityVal(row)))]

\* patch: find resolved; .then(handleEntityNotFound(res)).then(patchUpdates(req.body))
\* up to the call of entity.save(), or to .catch(handleError(res)) when
\* patchUpdates rejects or throws
patchFound(r) ==
    /\ reqs[r].pc = "find" /\ reqs[r].op = "patch"
    /\ LET e == find(reqs[r].id)
           h == handleEntityNotFound(reqs[r].writes, e)
           u == patchUpdates(reqs[r].body.ops, h.val)
       IN  IF u.save
           THEN reqs' = [reqs EXCEPT ![r].pc = "save", ![r].found = e,
                     ![r].entity = u.val, ![r].writes = h.writes,
                     ![r].calls = Append(@, "save")]
           ELSE reqs' = [reqs EXCEPT ![r] =
                     Done([@ EXCEPT !.found = e, !.entity = u.val],
                          IF u.threw THEN handleError(h.writes, 0)
                          ELSE respondWithResult(h.writes, 0, u.val))]
    /\ UNCHANGED <<store, gone, tracking>>

\* patch: save resolved with the entity; .then(respondWithResult(res))
saveResolved(r) ==
    /\ reqs[r].pc = "save"
    /\ saveAllowed(TheRow(reqs[r].found).id, TheRow(reqs[r].entity))
    /\ store' = saveStore(TheRow(reqs[r].found).id, TheRow(reqs[r].entity))
    /\ Finish(r, respondWithResult(reqs[r].writes, 0, reqs[r].entity))
    /\ UNCHANGED <<gone, tracking>>

\* destroy: find resolved; .then(handleEntityNotFound(res)).then(removeEntity(res))
\* up to the call of entity.destroy()
destroyFound(r) ==
    /\ reqs[r].pc = "find" /\ reqs[r].op = "destroy"
    /\ LET e == find(reqs[r].id)
           h == handleEntityNotFound(reqs[r].writes, e)
       IN  IF removeEntity(h.val)
           THEN reqs' = [reqs EXCEPT ![r].pc = "destroy", ![r].found = e,
                     ![r].entity = h.val, ![r].writes = h.writes,
                     ![r].calls = Append(@, "destroy")]
           ELSE reqs' = [reqs EXCEPT ![r] = Done([@ EXCEPT !.found = e], h.writes)]
    /\ UNCHANGED <<store, gone, tracking>>

\* destroy: entity.destroy() resolved; .then(() => res.status(204).end())
destroyResolved(r) ==
    /\ reqs[r].pc = "destroy"
    /\ store' = destroyStore(TheRow(reqs[r].entity))
    /\ gone' = IF tracking THEN gone \cup {TheRow(reqs[r].entity).id} ELSE gone
    /\ UNCHANGED tracking
    /\ Finish(r, Append(reqs[r].writes, Write(204, "empty", NullVal)))

\* any pending data-access call rejects: the .then callbacks are skipped and
\* .catch(handleError(res)) runs; the store is as the call found it
callRejected(r) ==
    /\ Pending(r)
    /\ reqs' = [reqs EXCEPT ![r] =
          Done([@ EXCEPT !.rejected = TRUE], handleError(reqs[r].writes, 0))]
    /\ UNCHANGED <<store, gone, tracking>>

Settle(r) ==
    \/ indexResolved(r)
    \/ showResolved(r)
    \/ createResolved(r)
    \/ upsertResolved(r)
    \/ patchFound(r)
    \/ saveResolved(r)
    \/ destroyFound(r)
    \/ destroyResolved(r)
    \/ callRejected(r)

Request(r, ids, bodies, lists) ==
    \/ index(r)
    \/ \E id \in ids : show(r, id)
    \/ \E body \in bodies : create(r, body)
    \/ \E id \in ids, body \in bodies : upsert(r, id, body)
    \/ \E id \in ids, body \in lists : patch(r, id, body)
    \/ \E id \in ids : destroy(r, id)

\* one request at a time (all on slot 1), every input
Next ==
    \/ Request(1, PathIds, Bodies, PatchLists)
    \/ \E r \in Reqs : Settle(r)

Spec == Init /\ [][Next]_vars

SpecHist == InitHist /\ [][Next]_vars

\* up to MaxReq writers in flight, all on one entity
RequestConc(r) ==
    \/ \E body \in ConcBodies : create(r, body)
    \/ \E id \in ConcIds, body \in ConcPatchLists : patch(r, id, body)
    \/ \E id \in ConcIds : destroy(r, id)

SettleConc(r) ==
    \/ createResolved(r)
    \/ patchFound(r)
    \/ saveResolved(r)
    \/ destroyFound(r)
    \/ destroyResolved(r)
    \/ callRejected(r)

NextConc ==
    \/ \E r \in Reqs : RequestConc(r)
    \/ \E r \in Reqs : SettleConc(r)

SpecConc == Init /\ [][NextConc]_vars

\* ---------------------------------------------------------------- claims
NotFound404 == <<Write(404, "empty", NullVal)>>
Error500 == <<Write(500, "error", NullVal)>>
Json(status, row) == <<Write(status, "json", EntityVal(row))>>

\* request r takes the step that settles its pending call without rejection
Resolves(r, op, call) ==
    /\ reqs[r].op = op /\ reqs[r].pc = call
    /\ reqs'[r].pc # call /\ ~reqs'[r].rejected

\* C1: for an id absent from the store, show, patch and destroy respond 404
\* with an empty body and nothing more: no other write, no save or destroy call.
C1_NotFoundIsFinal ==
    \A r \in Reqs :
        (/\ reqs[r].pc = "done" /\ reqs[r].op \in {"show", "patch", "destroy"}
         /\ ~reqs[r].rejected /\ ~Truthy(reqs[r].found))
        => (reqs[r].writes = NotFound404 /\ reqs[r].calls = <<"find">>)

\* C2: every row keeps the id it was created with, and no id sent by the
\* client reaches a store call of upsert or patch.
C2_IdImmutable ==
    /\ \A row \in store : row.id = row.cid
    /\ \A r \in Reqs :
        /\ reqs[r].pc = "upsert" => ~reqs[r].body.hasId
        /\ reqs[r].pc = "save" =>
               TheRow(reqs[r].entity).id = TheRow(reqs[r].found).id

\* C3: an upsert that resolves leaves, whatever id the body carried, a row
\* with the path id and the body's other fields, which is the 200 response.
C3_UpsertAtPathId ==
    [][\A r \in Reqs : Resolves(r, "upsert", "upsert") =>
          \E row \in store' :
               /\ row.id = reqs[r].id
               /\ row.name = reqs[r].body.name
               /\ row.price = reqs[r].body.price
               /\ reqs'[r].writes = Json(200, row)]_vars

\* C4: a patch list with an operation that throws, on an existing entity:
\* 500, the store untouched, save never called.
C4_FailedPatchNotPersisted ==
    [][\A r \in Reqs :
          (/\ Resolves(r, "patch", "find")
           /\ Truthy(find(reqs[r].id))
           /\ ~jsonpatchApply(TheRow(find(reqs[r].id)), reqs[r].body.ops).ok)
          => (/\ store' = store
              /\ reqs'[r].pc = "done"
              /\ reqs'[r].writes = Error500
              /\ reqs'[r].calls = <<"find">>)]_vars

\* C4 witness: a patch answered 500 after an earlier operation of its list
\* had changed the entity in memory; the row read is still in the store.
C4_Witness ==
    \E r \in Reqs :
        /\ reqs[r].pc = "done" /\ reqs[r].op = "patch" /\ ~reqs[r].rejected
        /\ Truthy(reqs[r].found)
        /\ reqs[r].entity # reqs[r].found
        /\ reqs[r].writes = Error500
        /\ TheRow(reqs[r].found) \in store

\* C5: destroy of an existing entity responds 204 and removes it, and a show
\* of an id whose destroy has responded, with no create or upsert of that id
\* since, responds 404.
C5_ShowAfterDestroy404 ==
    [][\A r \in Reqs :
          /\ Resolves(r, "destroy", "destroy") =>
                /\ reqs'[r].writes = <<Write(204, "empty", NullVal)>>
                /\ \A row \in store' : row.id # reqs[r].id
          /\ (Resolves(r, "show", "find") /\ reqs[r].id \in gone) =>
                reqs'[r].writes = NotFound404]_vars

\* the fields of an entity that the replace operations of a list name
Named(ops) == {ops[i].path : i \in {j \in 1..Len(ops) : ops[j].op = "replace"}}

\* C6: a patch whose save resolves changes only the row with the path id, and
\* in it only the fields its operations name (replace /name A -> X gives name
\* X); the 200 response is the row as persisted.
C6_PatchFrame ==
    [][\A r \in Reqs : Resolves(r, "patch", "save") =>
          LET f == TheRow(reqs[r].found)
              e == TheRow(reqs[r].entity)
              named == Named(reqs[r].body.ops)
          IN  /\ f.id = reqs[r].id
              /\ f \in store
              /\ store' = (store \ {f}) \cup {e}
              /\ e.cid = f.cid
              /\ "id" \notin named => e.id = f.id
              /\ "name" \notin named => e.name = f.name
              /\ "price" \notin named => e.price = f.price
              /\ (reqs[r].body.ops = <<PatchOp("replace", "name", 0, "X")>>
                    /\ f.name = "A") => e = [f EXCEPT !.name = "X"]
              /\ reqs'[r].writes = Json(200, e)]_vars

\* C6 witness: a patch has turned name A into X, answered 200 with the row
\* now in the store, and another entity is in the store beside it.
C6_Witness ==
    \E r \in Reqs :
        /\ reqs[r].pc = "done" /\ reqs[r].op = "patch" /\ ~reqs[r].rejected
        /\ Truthy(reqs[r].found) /\ Truthy(reqs[r].entity)
        /\ TheRow(reqs[r].found).name = "A"
        /\ TheRow(reqs[r].entity) = [TheRow(reqs[r].found) EXCEPT !.name = "X"]
        /\ reqs[r].writes = Json(200, TheRow(reqs[r].entity))
        /\ TheRow(reqs[r].entity) \in store
        /\ Cardinality(store) > 1

\* C7 as stated: every create responds 201 with the created entity.
C7_CreateAlways201 ==
    \A r \in Reqs :
        (reqs[r].pc = "done" /\ reqs[r].op = "create")
        => (/\ Len(reqs[r].writes) = 1
            /\ reqs[r].writes[1].status = 201
            /\ reqs[r].writes[1].kind = "json")

\* C7 amended: a create whose store call resolves responds 201 with an entity
\* that has the body's fields and an id no row had; the store gains that row
\* and nothing else changes.
C7_CreateResolved201 ==
    [][\A r \in Reqs : Resolves(r, "create", "create") =>
          \E row \in store' :
              /\ row \notin store
              /\ store' = store \cup {row}
              /\ row.name = reqs[r].body.name
              /\ row.price = reqs[r].body.price
              /\ reqs[r].body.hasId => row.id = reqs[r].body.id
              /\ row.id \notin UsedIds
              /\ reqs'[r].writes = Json(201, row)]_vars

\* C7 witness: a create answered 201 with a row that is in the store beside
\* an older one.
C7_Witness ==
    \E r \in Reqs :
        /\ reqs[r].pc = "done" /\ reqs[r].op = "create"
        /\ Truthy(reqs[r].entity)
        /\ reqs[r].writes = Json(201, TheRow(reqs[r].entity))
        /\ TheRow(reqs[r].entity) \in store
        /\ Cardinality(store) > 1

\* C8: a data-access call that rejects ends the request: 500 with the error
\* as body, the store as before the call, no further call, nothing after it.
C8_RejectionIsTerminal ==
    [][\A r \in Reqs :
          /\ (Pending(r) /\ reqs'[r].rejected) =>
                /\ store' = store
                /\ reqs'[r].pc = "done"
                /\ reqs'[r].writes = Error500
                /\ reqs'[r].calls = reqs[r].calls
          /\ (reqs[r].rejected /\ reqs'[r].rejected) => reqs'[r] = reqs[r]]_vars

\* C8 witness: the second data-access call of a patch (save) was rejected.
C8_Witness ==
    \E r \in Reqs :
        /\ reqs[r].pc = "done" /\ reqs[r].rejected
        /\ reqs[r].calls = <<"find", "save">>
        /\ reqs[r].writes = Error500

\* C9: save writes the entity as patched from the state read by find, over
\* whatever the row holds by then, and the patch responds 200 with it, also
\* when the row is gone by then (the store is then left as it is).
C9_SaveIsBlindWrite ==
    [][\A r \in Reqs : Resolves(r, "patch", "save") =>
          LET f == TheRow(reqs[r].found)
              e == jsonpatchApply(f, reqs[r].body.ops).row
          IN  /\ reqs'[r].writes = Json(200, e)
              /\ IF RowsWithId(f.id) = {} THEN store' = store
                 ELSE store' = (store \ RowsWithId(f.id)) \cup {e}]_vars

\* C9 witness: one patch has saved and responded 200 while another, which
\* read the same state and changes it differently, has its save pending:
\* that save will overwrite the first patch.
C9_Witness ==
    \E r1, r2 \in Reqs :
        /\ reqs[r1].op = "patch" /\ reqs[r1].pc = "done" /\ ~reqs[r1].rejected
        /\ Truthy(reqs[r1].entity)
        /\ reqs[r1].writes = Json(200, TheRow(reqs[r1].entity))
        /\ reqs[r2].op = "patch" /\ reqs[r2].pc = "save"
        /\ reqs[r2].found = reqs[r1].found
        /\ reqs[r2].entity # reqs[r1].entity
        /\ reqs[r1].entity # reqs[r1].found
        /\ store = {TheRow(reqs[r1].entity)}

\* C10: a request that has run to its end has written exactly one response.
C10_ExactlyOneResponse ==
    \A r \in Reqs : reqs[r].pc = "done" => Len(reqs[r].writes) = 1

====
